---- MODULE Spec2Model ----
(***************************************************************************)
(* The interview service of app/main.py: the process-wide session store    *)
(* SESSIONS, the two JSON endpoints chat and extract, and the helpers they *)
(* call (get_session, generate_ai_reply, extract_dimensions,               *)
(* build_dimension_template).                                              *)
(*                                                                         *)
(* Both endpoints are coroutines (async def) that FastAPI awaits on the    *)
(* event loop.  A request is validated against its pydantic model before   *)
(* the coroutine is called, and a coroutine gives the loop back only at an *)
(* await.  Every handler is modelled line by line; the variable loop says  *)
(* which handler currently occupies the event loop.                        *)
(***************************************************************************)
EXTENDS Naturals, Sequences, FiniteSets, TLC

VARIABLES SESSIONS, task, loop, api_key

vars == <<SESSIONS, task, loop, api_key>>

(***************************************************************************)
(* Bounds of the model.                                                    *)
(***************************************************************************)
MaxTasks == 2       \* requests in flight at the same time
MaxSessions == 2    \* sessions ever registered
MaxHistory == 4     \* turns stored in one session

Tasks == 1..MaxTasks

(***************************************************************************)
(* Configuration and inputs.                                               *)
(***************************************************************************)
DIMENSIONS ==
    << "relationship_with_family", "relationship_with_self",
       "sources_of_escape_and_fun", "what_makes_them_happy",
       "what_makes_them_sad", "what_they_value_in_people",
       "values_above_average", "values_below_average",
       "emotional_awareness", "identity_and_self_image",
       "moral_framework", "response_to_adversity",
       "need_for_control", "hidden_drivers" >>

DimensionKeys == {DIMENSIONS[n] : n \in 1..Len(DIMENSIONS)}

FallbackReply ==
    "Thanks for sharing. Could you tell me about a recent piece of media that really touched your soul?"

\* Message texts a client sends; the empty one fails min_length=1.
Messages == {"", "I value loyalty"}

\* Texts the chat model answers with.
LLMReplies == {"What does loyalty look like to you?"}

\* uuid.uuid4(): identifiers that are unique among those generated so far.
Uuids == {"uuid-" \o ToString(n) : n \in 1..MaxSessions}

\* Strings a client can put in session_id without having been given them.
ForeignIds == {"", "not-a-session"}

\* Optional[str]: <<>> is None, <<s>> is the string s.
None == <<>>
Some(s) == <<s>>

(***************************************************************************)
(* Data.                                                                   *)
(***************************************************************************)
Turn(role, content) == [role |-> role, content |-> content]

\* SessionState(): history = field(default_factory=list), a list of its own.
SessionState == [history |-> <<>>]

\* A JSON value as json.loads returns it and JSONResponse sends it.
JsonObject(members) == [type |-> "object", members |-> members]
JsonArray == [type |-> "array", members |-> <<>>]
JsonNull == [type |-> "null", members |-> <<>>]

\* One assessment: assessment is None or a string, confidence is in tenths.
NullAssessment ==
    [assessment |-> None, confidence |-> 0, supporting_evidence |-> <<>>]

SomeAssessment ==
    [assessment |-> Some("They keep family close."), confidence |-> 7,
     supporting_evidence |-> <<"I value loyalty">>]

build_dimension_template ==
    JsonObject([key \in DimensionKeys |-> NullAssessment])

(***************************************************************************)
(* json.loads on the texts the extraction model may answer with.           *)
(***************************************************************************)
LLMTexts ==
    {"{all dimension keys}", "{one key missing}", "{one key extra}",
     "[]", "Here you go: {all dimension keys}"}

JSONDecodeError == [ok |-> FALSE, value |-> JsonNull]
Decoded(value) == [ok |-> TRUE, value |-> value]

json_loads(text) ==
    CASE text = "{all dimension keys}" ->
            Decoded(JsonObject([key \in DimensionKeys |-> SomeAssessment]))
      [] text = "{one key missing}" ->
            Decoded(JsonObject([key \in DimensionKeys \ {"hidden_drivers"}
                                    |-> SomeAssessment]))
      [] text = "{one key extra}" ->
            Decoded(JsonObject([key \in DimensionKeys \cup {"summary"}
                                    |-> SomeAssessment]))
      [] text = "[]" -> Decoded(JsonArray)
      [] OTHER -> JSONDecodeError

(***************************************************************************)
(* Session store.                                                          *)
(***************************************************************************)
\* get_session(session_id) with new_id the value uuid4() would return.
\* Python truth of "session_id and session_id in SESSIONS".
Known(session_id, store) ==
    /\ session_id # None
    /\ session_id[1] # ""
    /\ session_id[1] \in DOMAIN store

Register(store, new_id) ==
    [id \in DOMAIN store \cup {new_id} |->
        IF id = new_id THEN SessionState ELSE store[id]]

\* Variant: a supplied identifier that is not known is registered as given.
get_session_registers_supplied(session_id, store, new_id) ==
    IF Known(session_id, store)
    THEN [session_id |-> session_id[1], store |-> store]
    ELSE IF session_id # None /\ session_id[1] # ""
    THEN [session_id |-> session_id[1],
          store |-> Register(store, session_id[1])]
    ELSE [session_id |-> new_id, store |-> Register(store, new_id)]

get_session(session_id, store, new_id) ==
    IF Known(session_id, store)
    THEN [session_id |-> session_id[1], store |-> store]
    ELSE [session_id |-> new_id, store |-> Register(store, new_id)]

\* Variant: the history is assigned instead of appended to.
Append_history_replaces(store, id, turn) ==
    [store EXCEPT ![id].history = <<turn>>]

\* Variant: one list object is the history of every session.
Append_history_shared(store, id, turn) ==
    [s \in DOMAIN store |-> [store[s] EXCEPT !.history = Append(@, turn)]]

\* state.history.append(turn), state being the object stored under id.
Append_history(store, id, turn) ==
    [store EXCEPT ![id].history = Append(@, turn)]

(***************************************************************************)
(* Reply generator and dimension extractor: the set of outcomes of a call. *)
(* raised: the client call (or reading content[0].text) threw.             *)
(* llm: client.messages.create was called.                                 *)
(***************************************************************************)
\* Variant: the credential is not looked at before calling out.
generate_ai_reply_ignores_key(history, key) ==
    {[raised |-> FALSE, text |-> r, llm |-> TRUE] : r \in LLMReplies}
    \cup {[raised |-> TRUE, text |-> "", llm |-> TRUE]}

generate_ai_reply(history, key) ==
    IF ~key
    THEN {[raised |-> FALSE, text |-> FallbackReply, llm |-> FALSE]}
    ELSE {[raised |-> FALSE, text |-> r, llm |-> TRUE] : r \in LLMReplies}
         \cup {[raised |-> TRUE, text |-> "", llm |-> TRUE]}

RECURSIVE Join(_)
Join(lines) ==
    IF Len(lines) = 0 THEN ""
    ELSE IF Len(lines) = 1 THEN lines[1]
    ELSE lines[1] \o "\n" \o Join(Tail(lines))

Transcript(history) ==
    Join([n \in 1..Len(history) |->
            history[n].role \o ": " \o history[n].content])

\* Variant: a decode error yields an empty object.
ParseOrTemplate_empty(response_text) ==
    IF json_loads(response_text).ok
    THEN json_loads(response_text).value
    ELSE JsonObject([key \in {} |-> NullAssessment])

ParseOrTemplate(response_text) ==
    IF json_loads(response_text).ok
    THEN json_loads(response_text).value
    ELSE build_dimension_template

extract_dimensions(history, key) ==
    IF ~key
    THEN {[raised |-> FALSE, value |-> build_dimension_template, llm |-> FALSE,
           transcript |-> "", response_text |-> None]}
    ELSE {[raised |-> FALSE, value |-> ParseOrTemplate(t), llm |-> TRUE,
           transcript |-> Transcript(history), response_text |-> Some(t)]
              : t \in LLMTexts}
         \cup {[raised |-> TRUE, value |-> JsonNull, llm |-> TRUE,
                transcript |-> Transcript(history), response_text |-> None]}

\* Variant: the asynchronous client is awaited.
LLMCallSuspends_awaited == TRUE

\* client.messages.create on the synchronous client: the coroutine does not
\* await, so the handler keeps the event loop during the round trip.
LLMCallSuspends == FALSE

(***************************************************************************)
(* Requests in flight.  A slot holds one request from its arrival to its   *)
(* response; the response stays readable until the slot is used again.     *)
(***************************************************************************)
NoBody == [kind |-> "none"]

IdleTask ==
    [pc |-> "idle", kind |-> "none",
     payload |-> [session_id |-> None, message |-> ""],
     session_id |-> "", reply |-> "", llm |-> FALSE, transcript |-> "",
     response_text |-> None, dimensions |-> JsonNull, status |-> 0,
     body |-> NoBody]

Free(i) == task[i].pc \in {"idle", "done"}

History(id) == SESSIONS[id].history

Respond(t, status, body) ==
    [t EXCEPT !.pc = "done", !.status = status, !.body = body]

\* The handler in slot i may take its next step: it occupies the loop, or
\* it was suspended at an await and the loop is free.
ResumableFrom(i) == IF LLMCallSuspends THEN {0, i} ELSE {i}

\* uuid4(): any identifier not generated before.
uuid4(store) == Uuids \ DOMAIN store

Init ==
    /\ SESSIONS = [id \in {} |-> SessionState]
    /\ task = [i \in Tasks |-> IdleTask]
    /\ loop = 0
    /\ api_key \in BOOLEAN

(***************************************************************************)
(* POST /api/chat                                                          *)
(***************************************************************************)
\* Variant: message carries no length constraint.
ChatRequest_unvalidated(i, session_id, message) ==
    /\ Free(i)
    /\ task' = [task EXCEPT ![i] =
            [IdleTask EXCEPT !.pc = "chat_get_session", !.kind = "chat",
                 !.payload = [session_id |-> session_id,
                              message |-> message]]]
    /\ UNCHANGED <<SESSIONS, loop, api_key>>

\* ChatRequest: message has min_length=1; a body that fails validation is
\* answered 422 and chat is not called.
ChatRequest(i, session_id, message) ==
    /\ Free(i)
    /\ task' = [task EXCEPT ![i] =
            IF Len(message) >= 1
            THEN [IdleTask EXCEPT !.pc = "chat_get_session", !.kind = "chat",
                      !.payload = [session_id |-> session_id,
                                   message |-> message]]
            ELSE Respond([IdleTask EXCEPT !.kind = "chat",
                              !.payload = [session_id |-> session_id,
                                           message |-> message]],
                         422, [kind |-> "validation_error"])]
    /\ UNCHANGED <<SESSIONS, loop, api_key>>

\* session_id, state = get_session(payload.session_id)
chat_get_session(i) ==
    /\ task[i].pc = "chat_get_session"
    /\ loop = 0
    /\ Known(task[i].payload.session_id, SESSIONS) =>
           Len(SESSIONS[task[i].payload.session_id[1]].history) + 2
               <= MaxHistory
    /\ \E new_id \in IF Known(task[i].payload.session_id, SESSIONS)
                     THEN {"unused"} ELSE uuid4(SESSIONS) :
         LET r == get_session(task[i].payload.session_id, SESSIONS, new_id)
         IN /\ SESSIONS' = r.store
            /\ task' = [task EXCEPT ![i].session_id = r.session_id,
                                    ![i].pc = "chat_append_user"]
    /\ loop' = i
    /\ UNCHANGED api_key

\* state.history.append({"role": "user", "content": payload.message})
chat_append_user(i) ==
    /\ task[i].pc = "chat_append_user"
    /\ loop \in ResumableFrom(i)
    /\ SESSIONS' = Append_history(SESSIONS, task[i].session_id,
                                  Turn("user", task[i].payload.message))
    /\ task' = [task EXCEPT ![i].pc = "chat_generate_ai_reply"]
    /\ loop' = i
    /\ UNCHANGED api_key

\* reply = generate_ai_reply(state.history), up to the return of the
\* fallback sentence or the sending of the request to the model.
chat_generate_ai_reply(i) ==
    /\ task[i].pc = "chat_generate_ai_reply"
    /\ loop \in ResumableFrom(i)
    /\ \E o \in generate_ai_reply(History(task[i].session_id), api_key) :
         IF o.llm
         THEN /\ task' = [task EXCEPT ![i].llm = TRUE,
                                      ![i].pc = "chat_awaiting_reply"]
              /\ loop' = IF LLMCallSuspends THEN 0 ELSE i
         ELSE /\ task' = [task EXCEPT ![i].reply = o.text,
                                      ![i].pc = "chat_append_assistant"]
              /\ loop' = i
    /\ UNCHANGED <<SESSIONS, api_key>>

\* The round trip ends: response.content[0].text is returned, or an
\* exception leaves the handler and the request is answered 500.
chat_reply_arrives(i) ==
    /\ task[i].pc = "chat_awaiting_reply"
    /\ loop \in ResumableFrom(i)
    /\ \E o \in generate_ai_reply(History(task[i].session_id), api_key) :
         /\ o.llm
         /\ IF o.raised
            THEN /\ task' = [task EXCEPT ![i] =
                        Respond(@, 500, [kind |-> "server_error"])]
                 /\ loop' = 0
            ELSE /\ task' = [task EXCEPT ![i].reply = o.text,
                                         ![i].pc = "chat_append_assistant"]
                 /\ loop' = i
    /\ UNCHANGED <<SESSIONS, api_key>>

\* state.history.append({"role": "assistant", "content": reply})
chat_append_assistant(i) ==
    /\ task[i].pc = "chat_append_assistant"
    /\ loop \in ResumableFrom(i)
    /\ SESSIONS' = Append_history(SESSIONS, task[i].session_id,
                                  Turn("assistant", task[i].reply))
    /\ task' = [task EXCEPT ![i].pc = "chat_return"]
    /\ loop' = i
    /\ UNCHANGED api_key

\* return ChatResponse(session_id=session_id, message=reply)
chat_return(i) ==
    /\ task[i].pc = "chat_return"
    /\ loop \in ResumableFrom(i)
    /\ task' = [task EXCEPT ![i] =
            Respond(@, 200, [kind |-> "ChatResponse",
                             session_id |-> task[i].session_id,
                             message |-> task[i].reply])]
    /\ loop' = 0
    /\ UNCHANGED <<SESSIONS, api_key>>

(***************************************************************************)
(* POST /api/extract                                                       *)
(***************************************************************************)
\* ExtractRequest: session_id is a string.
ExtractRequest(i, session_id) ==
    /\ Free(i)
    /\ task' = [task EXCEPT ![i] =
            [IdleTask EXCEPT !.pc = "extract_lookup", !.kind = "extract",
                 !.payload = [session_id |-> Some(session_id),
                              message |-> ""]]]
    /\ UNCHANGED <<SESSIONS, loop, api_key>>

\* Variant: the session is resolved with get_session, as chat does.
extract_lookup_get_session(i) ==
    /\ task[i].pc = "extract_lookup"
    /\ loop = 0
    /\ \E new_id \in IF Known(task[i].payload.session_id, SESSIONS)
                     THEN {"unused"} ELSE uuid4(SESSIONS) :
         LET r == get_session(task[i].payload.session_id, SESSIONS, new_id)
         IN /\ SESSIONS' = r.store
            /\ task' = [task EXCEPT ![i].session_id = r.session_id,
                                    ![i].pc = "extract_dimensions"]
    /\ loop' = i
    /\ UNCHANGED api_key

\* if payload.session_id not in SESSIONS: return 404, else
\* state = SESSIONS[payload.session_id]
extract_lookup(i) ==
    /\ task[i].pc = "extract_lookup"
    /\ loop = 0
    /\ IF task[i].payload.session_id[1] \notin DOMAIN SESSIONS
       THEN /\ task' = [task EXCEPT ![i] =
                   Respond(@, 404, [kind |-> "error",
                                    error |-> "Unknown session."])]
            /\ loop' = 0
       ELSE /\ task' = [task EXCEPT
                   ![i].session_id = task[i].payload.session_id[1],
                   ![i].pc = "extract_dimensions"]
            /\ loop' = i
    /\ UNCHANGED <<SESSIONS, api_key>>

\* dimensions = extract_dimensions(state.history), up to the return of the
\* template or the sending of the prompt, transcript included, to the model.
extract_extract_dimensions(i) ==
    /\ task[i].pc = "extract_dimensions"
    /\ loop \in ResumableFrom(i)
    /\ \E o \in extract_dimensions(History(task[i].session_id), api_key) :
         IF o.llm
         THEN /\ task' = [task EXCEPT ![i].llm = TRUE,
                              ![i].transcript = o.transcript,
                              ![i].pc = "extract_awaiting_response"]
              /\ loop' = IF LLMCallSuspends THEN 0 ELSE i
         ELSE /\ task' = [task EXCEPT ![i].dimensions = o.value,
                              ![i].pc = "extract_return"]
              /\ loop' = i
    /\ UNCHANGED <<SESSIONS, api_key>>

\* The round trip ends: the text is parsed (or the template stands in),
\* or an exception leaves the handler and the request is answered 500.
extract_response_arrives(i) ==
    /\ task[i].pc = "extract_awaiting_response"
    /\ loop \in ResumableFrom(i)
    /\ \E o \in extract_dimensions(History(task[i].session_id), api_key) :
         /\ o.llm
         /\ IF o.raised
            THEN /\ task' = [task EXCEPT ![i] =
                        Respond(@, 500, [kind |-> "server_error"])]
                 /\ loop' = 0
            ELSE /\ task' = [task EXCEPT ![i].dimensions = o.value,
                                 ![i].response_text = o.response_text,
                                 ![i].pc = "extract_return"]
                 /\ loop' = i
    /\ UNCHANGED <<SESSIONS, api_key>>

\* return JSONResponse({"interview_id": ..., "timestamp": ..., "dimensions":
\* dimensions}); the timestamp is a reading of the wall clock and is left out.
extract_return(i) ==
    /\ task[i].pc = "extract_return"
    /\ loop \in ResumableFrom(i)
    /\ task' = [task EXCEPT ![i] =
            Respond(@, 200, [kind |-> "extraction",
                             interview_id |-> task[i].payload.session_id[1],
                             dimensions |-> task[i].dimensions])]
    /\ loop' = 0
    /\ UNCHANGED <<SESSIONS, api_key>>

(***************************************************************************)
(* Specification.                                                          *)
(***************************************************************************)
ClientChatIds == {None} \cup {Some(s) : s \in ForeignIds \cup DOMAIN SESSIONS}
ClientExtractIds == ForeignIds \cup DOMAIN SESSIONS

\* What slot i can do: a request arrives in it, or its handler takes a step.
Step(i) ==
    \/ \E session_id \in ClientChatIds, message \in Messages :
           ChatRequest(i, session_id, message)
    \/ chat_get_session(i)
    \/ chat_append_user(i)
    \/ chat_generate_ai_reply(i)
    \/ chat_reply_arrives(i)
    \/ chat_append_assistant(i)
    \/ chat_return(i)
    \/ \E session_id \in ClientExtractIds : ExtractRequest(i, session_id)
    \/ extract_lookup(i)
    \/ extract_extract_dimensions(i)
    \/ extract_response_arrives(i)
    \/ extract_return(i)

\* Requests arrive at any time, up to MaxTasks of them in flight.
Next == \E i \in Tasks : Step(i)

Spec == Init /\ [][Next]_vars

\* One request at a time: each call is answered before the next is sent.
NextSequential == Step(1)

SpecSequential == Init /\ [][NextSequential]_vars


(***************************************************************************)
(* Vocabulary of the properties.                                           *)
(***************************************************************************)
IsPrefix(s, t) == Len(s) <= Len(t) /\ SubSeq(t, 1, Len(s)) = s

\* Slot i answered (with the given status) a request of the given kind.
Answered(i, kind, status) ==
    task[i].pc = "done" /\ task[i].kind = kind /\ task[i].status = status

\* Slot i takes the step that leaves the line named by pc.
Leaves(i, pc) == task[i].pc = pc /\ task'[i].pc # pc

\* The identifier supplied with the chat request in slot i is not a key.
SuppliedUnknown(i) == ~Known(task[i].payload.session_id, SESSIONS)

(***************************************************************************)
(* C1: a chat call without a session id is given an id that was not a key  *)
(* of the store before the call and answers with that id; every step keeps *)
(* every session and extends its history (what was stored stays, in the    *)
(* same order); and a chat call that answers has stored its user turn and  *)
(* then its assistant turn at the end of the session's history.            *)
(***************************************************************************)
C1_Step ==
    /\ \A id \in DOMAIN SESSIONS :
          /\ id \in DOMAIN SESSIONS'
          /\ IsPrefix(SESSIONS[id].history, SESSIONS'[id].history)
    /\ \A i \in Tasks :
          /\ Leaves(i, "chat_get_session") /\ task[i].payload.session_id = None
                => /\ task'[i].session_id \notin DOMAIN SESSIONS
                   /\ task'[i].session_id \in DOMAIN SESSIONS'
          /\ Leaves(i, "chat_return")
                => LET h == SESSIONS'[task'[i].body.session_id].history
                   IN /\ task'[i].body.session_id = task[i].session_id
                      /\ Len(h) >= 2
                      /\ h[Len(h) - 1] = Turn("user", task[i].payload.message)
                      /\ h[Len(h)] = Turn("assistant", task'[i].body.message)

C1_FreshIdThenAppend == [][C1_Step]_vars

\* A chat call on a known id answered, and its two turns follow two older ones.
C1_Witness ==
    \E i \in Tasks :
        /\ Answered(i, "chat", 200)
        /\ task[i].payload.session_id = Some(task[i].body.session_id)
        /\ Len(History(task[i].body.session_id)) = 4

(***************************************************************************)
(* C2: for an id that is not a key (the empty string included) get_session *)
(* gives what it gives for no id; the step registers exactly one new       *)
(* session, empty, under a fresh id, leaves the supplied id unregistered   *)
(* and every existing session unchanged; the call answers with the new id  *)
(* and the new session then holds the call's two turns.                    *)
(***************************************************************************)
C2_SameAsOmitted ==
    \A session_id \in ClientChatIds, new_id \in uuid4(SESSIONS) :
        ~Known(session_id, SESSIONS)
            => get_session(session_id, SESSIONS, new_id)
                   = get_session(None, SESSIONS, new_id)

C2_Step ==
    \A i \in Tasks :
        /\ Leaves(i, "chat_get_session") /\ SuppliedUnknown(i)
              => /\ task'[i].session_id \notin DOMAIN SESSIONS
                 /\ DOMAIN SESSIONS' = DOMAIN SESSIONS \cup {task'[i].session_id}
                 /\ SESSIONS'[task'[i].session_id].history = <<>>
                 /\ Some(task'[i].session_id) # task[i].payload.session_id
                 /\ task[i].payload.session_id # None
                       => task[i].payload.session_id[1] \notin DOMAIN SESSIONS'
                 /\ \A id \in DOMAIN SESSIONS : SESSIONS'[id] = SESSIONS[id]
        /\ Leaves(i, "chat_return")
              /\ Some(task[i].session_id) # task[i].payload.session_id
              => /\ task'[i].status = 200
                 /\ task'[i].body.session_id = task[i].session_id
                 /\ SESSIONS'[task[i].session_id].history
                        = << Turn("user", task[i].payload.message),
                             Turn("assistant", task'[i].body.message) >>

C2_UnknownIdCreates == [](C2_SameAsOmitted) /\ [][C2_Step]_vars

\* A chat call that supplied an unregistered, non-empty id answered with
\* another id while an older session exists.
C2_Witness ==
    \E i \in Tasks :
        /\ Answered(i, "chat", 200)
        /\ task[i].payload.session_id = Some("not-a-session")
        /\ task[i].body.session_id \in DOMAIN SESSIONS
        /\ "not-a-session" \notin DOMAIN SESSIONS
        /\ Cardinality(DOMAIN SESSIONS) = 2

(***************************************************************************)
(* C3: extract on an id that is not a key answers 404 with the body        *)
(* {"error": "Unknown session."} straight from the lookup, without calling *)
(* extract_dimensions and without registering anything; extract on a key   *)
(* never answers 404.                                                      *)
(***************************************************************************)
C3_Step ==
    \A i \in Tasks :
        Leaves(i, "extract_lookup")
            => IF task[i].payload.session_id[1] \notin DOMAIN SESSIONS
               THEN /\ task'[i].pc = "done"
                    /\ task'[i].status = 404
                    /\ task'[i].body
                           = [kind |-> "error", error |-> "Unknown session."]
                    /\ DOMAIN SESSIONS' = DOMAIN SESSIONS
               ELSE task'[i].pc = "extract_dimensions"

C3_Answered ==
    \A i \in Tasks :
        task[i].pc = "done" /\ task[i].kind = "extract"
            => /\ task[i].status = 404
                   <=> task[i].payload.session_id[1] \notin DOMAIN SESSIONS
               /\ task[i].status = 404
                   => ~task[i].llm /\ task[i].response_text = None

C3_UnknownSessionIs404 == [](C3_Answered) /\ [][C3_Step]_vars

\* An extract call on an unregistered id was answered 404 while a session
\* is registered.
C3_Witness ==
    \E i \in Tasks :
        /\ Answered(i, "extract", 404)
        /\ task[i].payload.session_id = Some("not-a-session")
        /\ task[i].body.error = "Unknown session."
        /\ DOMAIN SESSIONS # {}

(***************************************************************************)
(* C4: no step of an extract call changes the session store.               *)
(***************************************************************************)
C4_Step ==
    \A i \in Tasks :
        (task[i].kind = "extract" \/ task'[i].kind = "extract")
            /\ task'[i] # task[i]
            => SESSIONS' = SESSIONS

C4_ExtractKeepsStore == [][C4_Step]_vars

\* An extract call that went to the model answered for a session with turns.
C4_Witness ==
    \E i \in Tasks :
        /\ Answered(i, "extract", 200)
        /\ task[i].llm
        /\ task[i].response_text # None
        /\ Len(History(task[i].body.interview_id)) >= 2

(***************************************************************************)
(* C5: the dimensions of an answered extract call have exactly the         *)
(* configured keys when no model was called or its text was not JSON (the  *)
(* template stands in); a text that is JSON is returned as parsed, with    *)
(* whatever keys, or no keys at all, it has.                               *)
(***************************************************************************)
ExactKeys(value) ==
    value.type = "object" /\ DOMAIN value.members = DimensionKeys

C6_Step ==
    \A i \in Tasks :
        task'[i] # task[i]
            => /\ \A id \in DOMAIN SESSIONS \ {task'[i].session_id} :
                     SESSIONS'[id] = SESSIONS[id]
               /\ Leaves(i, "extract_dimensions") /\ task'[i].llm
                     => task'[i].transcript
                            = Transcript(History(task[i].payload.session_id[1]))

C6_SessionsIsolated == [][C6_Step]_vars

\* Two sessions hold different turns and an extract call on one of them was
\* given that session's transcript.
C6_Witness ==
    \E i \in Tasks : \E a, b \in DOMAIN SESSIONS :
        /\ a # b
        /\ Len(History(a)) > 0 /\ Len(History(b)) > 0
        /\ History(a) # History(b)
        /\ Answered(i, "extract", 200)
        /\ task[i].llm
        /\ task[i].payload.session_id = Some(b)
        /\ task[i].transcript = Transcript(History(b))

(***************************************************************************)
(* C7: without a credential no call reaches the model, every chat call     *)
(* that passed validation answers 200 with the fallback sentence, every    *)
(* assistant turn stored is that sentence, and every extract call on a     *)
(* known session answers 200 with the template: every configured key with  *)
(* assessment null, confidence 0.0 and no supporting evidence.             *)
(***************************************************************************)
AssistantTurns ==
    UNION {{History(id)[n] :
               n \in {m \in 1..Len(History(id)) :
                         History(id)[m].role = "assistant"}}
              : id \in DOMAIN SESSIONS}

C7_OfflineFallback ==
    ~api_key =>
        /\ \A i \in Tasks :
              /\ ~task[i].llm
              /\ task[i].pc = "done" => task[i].status \in {200, 404, 422}
              /\ Answered(i, "chat", 200)
                    => task[i].body.message = FallbackReply
              /\ Answered(i, "extract", 200)
                    => /\ DOMAIN task[i].body.dimensions.members = DimensionKeys
                       /\ \A key \in DimensionKeys :
                             task[i].body.dimensions.members[key]
                                 = [assessment |-> None, confidence |-> 0,
                                    supporting_evidence |-> <<>>]
        /\ \A turn \in AssistantTurns : turn.content = FallbackReply

\* Without a credential an extract call answered for a session to which a
\* chat call had stored the fallback sentence.
C7_Witness ==
    /\ ~api_key
    /\ \E i \in Tasks :
          /\ Answered(i, "extract", 200)
          /\ task[i].body.dimensions = build_dimension_template
          /\ Turn("assistant", FallbackReply)
                 \in AssistantTurns

(***************************************************************************)
(* C8: a chat request with an empty message is answered 422 on arrival:    *)
(* the handler is never entered for it (no session resolved, no model      *)
(* called), the store is left as it was, and no stored turn is empty.      *)
(***************************************************************************)
C8_Rejected ==
    /\ \A i \in Tasks :
          task[i].kind = "chat" /\ Len(task[i].payload.message) = 0
              => /\ task[i].pc = "done"
                 /\ task[i].status = 422
                 /\ task[i].session_id = ""
                 /\ ~task[i].llm
    /\ \A id \in DOMAIN SESSIONS :
          \A n \in 1..Len(History(id)) : Len(History(id)[n].content) > 0

C8_Step ==
    \A i \in Tasks :
        task'[i] # task[i] /\ task'[i].kind = "chat"
            /\ Len(task'[i].payload.message) = 0
            => SESSIONS' = SESSIONS /\ loop' = loop

C8_EmptyMessageRejected == [](C8_Rejected) /\ [][C8_Step]_vars

\* An empty message was answered 422 while the store holds a session.
C8_Witness ==
    \E i \in Tasks :
        /\ Answered(i, "chat", 422)
        /\ task[i].payload.message = ""
        /\ DOMAIN SESSIONS # {}

(***************************************************************************)
(* C9 as stated: whenever no handler is running, the store shows only      *)
(* whole chat calls: every session has turns and every user turn is        *)
(* followed by an assistant turn.                                          *)
(***************************************************************************)
C9_NoPartialOutcome ==
    loop = 0 =>
        \A id \in DOMAIN SESSIONS :
            /\ Len(History(id)) > 0
            /\ \A n \in 1..Len(History(id)) :
                  History(id)[n].role = "user"
                      => /\ n < Len(History(id))
                         /\ History(id)[n + 1].role = "assistant"

(***************************************************************************)
(* C10: chat calls on one session do not interleave.  While a chat call    *)
(* is between storing its user turn and storing its assistant turn it      *)
(* occupies the event loop, the last turn of its session is its own user   *)
(* turn, and no other handler is past its first line; so no history has    *)
(* two assistant turns in a row.                                           *)
(***************************************************************************)
Started(i) == task[i].pc \notin {"idle", "done", "chat_get_session",
                                 "extract_lookup"}

C10_NoInterleaving ==
    /\ \A i \in Tasks :
          task[i].pc \in {"chat_generate_ai_reply", "chat_awaiting_reply",
                          "chat_append_assistant"}
              => /\ loop = i
                 /\ Len(History(task[i].session_id)) > 0
                 /\ History(task[i].session_id)
                        [Len(History(task[i].session_id))]
                        = Turn("user", task[i].payload.message)
                 /\ \A j \in Tasks \ {i} : ~Started(j)
    /\ \A id \in DOMAIN SESSIONS :
          \A n \in 1..Len(History(id)) :
              n > 1 /\ History(id)[n].role = "assistant"
                  => History(id)[n - 1].role = "user"

\* A second chat request for the same session has arrived while the first
\* waits for the model's reply, with room in the history for both.
ConcurrentChats(i, j) ==
    /\ i # j
    /\ api_key
    /\ task[i].pc = "chat_awaiting_reply"
    /\ task[j].pc = "chat_get_session"
    /\ task[j].payload.session_id = Some(task[i].session_id)
    /\ Len(History(task[i].session_id)) + 2 <= MaxHistory

C10_Witness == \E i, j \in Tasks : ConcurrentChats(i, j)

\* C10 as stated: the second call can run, and so store its user turn,
\* while the first waits for the model's reply.
C10_CanInterleave ==
    \A i, j \in Tasks :
        ConcurrentChats(i, j) => ENABLED chat_get_session(j)

====
